---- MODULE Spec2Model ----
(***************************************************************************)
(* A model of the robot-count sweep harness:                               *)
(*   run_robot_optimization.py  -- modify_config, fix_config_file,         *)
(*                                 run_simulation, main (the sweep)        *)
(*   analyze_results.py         -- load_results, plot_results,             *)
(*                                 analyze_results, main                   *)
(*                                                                         *)
(* Five specifications share the variables below; each one drives one      *)
(* group of variables and leaves the other groups at rest:                 *)
(*   SpecParse   the completion-line scan of run_simulation                *)
(*   SpecAnalyze the analyzer                                              *)
(*   SpecConfig  modify_config / fix_config_file on arbitrary artifacts    *)
(*   SpecRun     one supervised run of the child process, with a clock     *)
(*   Spec        the sweep controller (main), kill and restart included    *)
(***************************************************************************)
EXTENDS Integers, Sequences, FiniteSets, TLC

VARIABLES
    \* ---- completion-line scan
    line,                 \* the output line under scan
    scanned,              \* <<>> before the scan, <<result>> after it
    \* ---- analyzer
    an_results,           \* the list analyze_results.main works on
    an_pc,                \* "file" | "loaded" | "plotted" | "analyzed" | "returned" | "crashed"
    an_plot,              \* what plot_results returned
    an_analysis,          \* what analyze_results returned
    an_recommended,       \* the value main prints as the recommendation
    \* ---- configuration artifact
    config,               \* CONFIG_FILE: a sequence of lines
    backup,               \* CONFIG_FILE + ".backup": <<>> (absent) or <<content>>
    cfg_before,           \* the artifact before the last ConfigEditor call
    cfg_call,             \* the last ConfigEditor call
    \* ---- one supervised run
    rpc,                  \* position of run_simulation
    now,                  \* wall clock, in ticks
    start_time,
    wake,                 \* end of the current sleep / wait
    child,                \* the child process
    pipe,                 \* lines written to stdout and not yet read
    output_lines,
    total_steps,
    timed_out,
    signals,              \* signals sent to the child, in order
    ret,                  \* <<>> until run_simulation returns, then <<value>>
    wrote,                \* every line the child wrote, on stdout or stderr
    \* ---- the sweep
    inv,                  \* number of invocations of main started so far
    args,                 \* the command line of the current invocation
    mpc,                  \* position of main
    results,              \* main's in-memory list of records
    file,                 \* RESULTS_FILE
    robots_to_test,
    idx,                  \* position of the for loop in robots_to_test
    consecutive_failures,
    clock,                \* source of time.strftime; it advances between invocations
    log,                  \* what the current invocation did, in order
    persisted,            \* the records of the last completed write or load
    hist                  \* how each invocation so far ended

parseVars == <<line, scanned>>
anVars    == <<an_results, an_pc, an_plot, an_analysis, an_recommended>>
cfgVars   == <<config, backup, cfg_before, cfg_call>>
runVars   == <<rpc, now, start_time, wake, child, pipe, output_lines,
               total_steps, timed_out, signals, ret, wrote>>
sweepVars == <<inv, args, mpc, results, file, robots_to_test, idx,
               consecutive_failures, clock, log, persisted, hist>>
vars == <<parseVars, anVars, cfgVars, runVars, sweepVars>>

(***************************************************************************)
(* Python's None and optional values: None is <<>>, a value v is <<v>>.    *)
(***************************************************************************)
None == <<>>
Some(v) == <<v>>
IsSome(o) == o # <<>>
Val(o) == o[1]

Range(s) == {s[i] : i \in 1..Len(s)}

(***************************************************************************)
(* Output lines.  A line is a sequence of tokens separated by single       *)
(* spaces; a token is a word or a run of decimal digits.                   *)
(***************************************************************************)
W(s) == [w |-> s, d |-> <<>>]
D(ds) == [w |-> "", d |-> ds]
IsNum(tok) == tok.d # <<>>

\* int(): the value of a run of decimal digits (leading zeros allowed).
RECURSIVE IntOf(_)
IntOf(ds) ==
    IF ds = <<>> THEN 0
    ELSE 10 * IntOf(SubSeq(ds, 1, Len(ds) - 1)) + ds[Len(ds)]

\* "phrase in line": the words of the phrase occur consecutively.
Contains(l, phrase) ==
    \E i \in 1..(Len(l) - Len(phrase) + 1) :
        \A j \in 1..Len(phrase) : l[i + j - 1].w = phrase[j]

\* One element of a pattern: a literal word, or the group (\d+).
Group == "(\\d+)"
MatchTok(pe, tok) == IF pe = Group THEN IsNum(tok) ELSE tok.w = pe
MatchAt(pat, l, i) ==
    /\ i + Len(pat) - 1 <= Len(l)
    /\ \A j \in 1..Len(pat) : MatchTok(pat[j], l[i + j - 1])
MatchPositions(pat, l) == {i \in 1..Len(l) : MatchAt(pat, l, i)}

\* re.search: the leftmost match, as the sequence of its groups; None if
\* the pattern matches nowhere.
Search(pat, l) ==
    IF MatchPositions(pat, l) = {} THEN None
    ELSE LET i == CHOOSE p \in MatchPositions(pat, l) :
                      \A q \in MatchPositions(pat, l) : p <= q
             gs == {j \in 1..Len(pat) : pat[j] = Group}
             Nth[n \in 1..Cardinality(gs)] ==
                 CHOOSE j \in gs : Cardinality({k \in gs : k < j}) = n - 1
         IN  Some([n \in 1..Cardinality(gs) |-> l[i + Nth[n] - 1].d])

patterns == <<
    <<"All", Group, "packages", "delivered", "in", Group, "steps">>,
    <<"All", "packages", "delivered", "in", Group, "steps">>,
    <<"delivered", "in", Group, "steps">> >>

\* The test that guards the patterns.
LooksLikeCompletion(l) ==
    /\ Contains(l, <<"All">>)
    /\ Contains(l, <<"packages", "delivered", "in">>)
    /\ Contains(l, <<"steps">>)

\* The steps a match stands for: the second group of two, else the first.
StepsOfMatch(groups) ==
    IF Len(groups) = 2 THEN IntOf(groups[2]) ELSE IntOf(groups[1])

\* The for loop over the patterns: the first pattern that matches decides.
RECURSIVE FirstMatch(_, _)
FirstMatch(pats, l) ==
    IF pats = <<>> THEN None
    ELSE IF IsSome(Search(pats[1], l))
         THEN Some(StepsOfMatch(Val(Search(pats[1], l))))
         ELSE FirstMatch(Tail(pats), l)

ScanLineLastGroup(l) ==
    IF ~LooksLikeCompletion(l) THEN None
    ELSE IF IsSome(Search(patterns[1], l))
         THEN Some(IntOf(Val(Search(patterns[1], l))[1]))
         ELSE FirstMatch(Tail(patterns), l)

\* The scan of one output line: None, or the extracted step count.
ScanLine(l) ==
    IF LooksLikeCompletion(l) THEN FirstMatch(patterns, l) ELSE None

(***************************************************************************)
(* SpecParse: the scan applied to one line of the child's output.          *)
(***************************************************************************)
MaxDigits == 2
ParseDigits == {0, 3, 9}
DigitSeqs == UNION {[1..n -> ParseDigits] : n \in 1..MaxDigits}
\* the package counts K and the counts of a second message on the line
PackageCounts == {<<d>> : d \in ParseDigits}

Words(ws) == [i \in 1..Len(ws) |-> W(ws[i])]
Variant1(k, n) == <<W("All"), D(k)>> \o Words(<<"packages", "delivered", "in">>)
                      \o <<D(n), W("steps")>>
Variant2(n) == Words(<<"All", "packages", "delivered", "in">>) \o <<D(n), W("steps")>>
Variant3(n) == Words(<<"delivered", "in">>) \o <<D(n), W("steps")>>
\* Lines that pass the guard and match the third pattern only.
AllThe(n) == Words(<<"All", "the", "packages", "delivered", "in">>)
                 \o <<D(n), W("steps")>>
\* Lines on which the first and the third pattern match with different counts.
Double(m, n) == Variant3(m) \o Words(<<"then">>) \o Variant1(<<3>>, n)
NoAll(n) == Words(<<"packages", "delivered", "in">>) \o <<D(n), W("steps")>>
Moves(n) == Words(<<"All", "packages", "delivered", "in">>) \o <<D(n), W("moves")>>
Prefixed(l) == Words(<<"INFO">>) \o l \o Words(<<"done">>)

ParseLines ==
    LET base == {Variant1(k, n) : k \in PackageCounts, n \in DigitSeqs}
                \cup {Variant2(n) : n \in DigitSeqs}
                \cup {Variant3(n) : n \in DigitSeqs}
                \cup {AllThe(n) : n \in DigitSeqs}
                \cup {Double(m, n) : m \in PackageCounts, n \in DigitSeqs}
                \cup {NoAll(n) : n \in DigitSeqs}
                \cup {Moves(n) : n \in DigitSeqs}
                \cup {Words(<<"Robot", "moved">>)}
    IN  base \cup {Prefixed(l) : l \in base}

ParseIdle == line = <<>> /\ scanned = <<>>

ParseInit == line \in ParseLines /\ scanned = <<>>

Scan ==
    /\ scanned = <<>>
    /\ scanned' = <<ScanLine(line)>>
    /\ UNCHANGED line

(***************************************************************************)
(* JSON values of a record: an integer or a string.                        *)
(***************************************************************************)
JInt(n) == [t |-> "int", n |-> n, s |-> ""]
JStr(s) == [t |-> "str", n |-> 0, s |-> s]
Record(p, steps, st, ts) ==
    [num_robots |-> p, total_steps |-> steps, status |-> st, timestamp |-> ts]

SortByRobotsKeepsOrder(s) == s

\* list.sort(key=lambda x: x['num_robots']): a stable sort.
RECURSIVE InsertByRobots(_, _)
InsertByRobots(r, s) ==
    IF s = <<>> THEN <<r>>
    ELSE IF s[Len(s)].num_robots <= r.num_robots THEN Append(s, r)
         ELSE Append(InsertByRobots(r, SubSeq(s, 1, Len(s) - 1)), s[Len(s)])
RECURSIVE SortByRobots(_)
SortByRobots(s) ==
    IF s = <<>> THEN <<>>
    ELSE InsertByRobots(s[Len(s)], SortByRobots(SubSeq(s, 1, Len(s) - 1)))

(***************************************************************************)
(* analyze_results.py.  The metrics are floating-point quotients and       *)
(* products of small integers; they are compared exactly:                  *)
(*   s1/r1 < s2/r2                  iff  s1*r2 < s2*r1          (r > 0)    *)
(*   s1*sqrt(r1) < s2*sqrt(r2)      iff  s1*s1*r1 < s2*s2*r2    (s >= 0)   *)
(* and dividing both sides by 100 (plot_results) keeps the order.          *)
(***************************************************************************)
Steps(r) == r.total_steps.n
Robots(r) == r.num_robots

LtMetricNoQuotient(kind, a, b) ==
    IF kind = "balanced"
    THEN Steps(a) * Steps(a) * Robots(a) < Steps(b) * Steps(b) * Robots(b)
    ELSE Steps(a) < Steps(b)
LtMetricNoRoot(kind, a, b) ==
    IF kind = "steps" THEN Steps(a) < Steps(b)
    ELSE Steps(a) * Robots(b) < Steps(b) * Robots(a)

\* metric[a] < metric[b] for the arrays steps, efficiency = steps / robots,
\* balanced_metric = steps * np.sqrt(robots)
LtMetric(kind, a, b) ==
    CASE kind = "steps" -> Steps(a) < Steps(b)
      [] kind = "efficiency" -> Steps(a) * Robots(b) < Steps(b) * Robots(a)
      [] kind = "balanced" ->
             Steps(a) * Steps(a) * Robots(a) < Steps(b) * Steps(b) * Robots(b)

\* np.argmin: the index of the first occurrence of the minimum.
RECURSIVE ArgMinScan(_, _, _, _)
ArgMinScan(kind, rs, i, best) ==
    IF i > Len(rs) THEN best
    ELSE IF LtMetric(kind, rs[i], rs[best])
         THEN ArgMinScan(kind, rs, i + 1, i)
         ELSE ArgMinScan(kind, rs, i + 1, best)
argmin(kind, rs) == ArgMinScan(kind, rs, 2, 1)

load_results(content) == SortByRobots(content)

\* steps = np.array([r['total_steps'] for r in results]) is an array of
\* numbers only if no record carries 'TIMEOUT'; on an array of strings
\* steps / robots raises.
Numeric(rs) == \A i \in 1..Len(rs) : rs[i].total_steps.t = "int"

plot_results(rs) ==
    [fastest |-> Robots(rs[argmin("steps", rs)]),
     most_efficient |-> Robots(rs[argmin("efficiency", rs)]),
     best_balanced |-> Robots(rs[argmin("balanced", rs)])]

analyze_results(rs) ==
    [fastest_robots |-> Robots(rs[argmin("steps", rs)]),
     fastest_steps |-> Steps(rs[argmin("steps", rs)]),
     most_efficient_robots |-> Robots(rs[argmin("efficiency", rs)]),
     most_efficient_steps |-> Steps(rs[argmin("efficiency", rs)]),
     best_balanced_robots |-> Robots(rs[argmin("balanced", rs)]),
     best_balanced_steps |-> Steps(rs[argmin("balanced", rs)])]

(***************************************************************************)
(* SpecAnalyze: analyze_results.main on a result file of success records.  *)
(***************************************************************************)
MaxAnLen == 3
MaxAnRobots == 3
AnSteps == {50, 55, 100}
AnRecords == {Record(p, JInt(n), "success", 0) : p \in 1..MaxAnRobots, n \in AnSteps}
Example == <<Record(1, JInt(100), "success", 0), Record(2, JInt(60), "success", 0),
             Record(3, JInt(50), "success", 0), Record(4, JInt(55), "success", 0),
             Record(5, JInt(70), "success", 0)>>
\* the records main writes for runs that timed out
AnFailed == {Record(p, JStr("TIMEOUT"), "failed", 0) : p \in 1..MaxAnRobots}
AnInputs == UNION {[1..n -> AnRecords \cup AnFailed] : n \in 0..MaxAnLen}
                \cup {Example}

AnIdle ==
    /\ an_results = <<>> /\ an_pc = "idle" /\ an_plot = <<>>
    /\ an_analysis = <<>> /\ an_recommended = <<>>

AnInit ==
    /\ an_results \in AnInputs /\ an_pc = "file" /\ an_plot = <<>>
    /\ an_analysis = <<>> /\ an_recommended = <<>>

\* results = load_results()
AnLoad ==
    /\ an_pc = "file"
    /\ an_results' = load_results(an_results)
    /\ an_pc' = "loaded"
    /\ UNCHANGED <<an_plot, an_analysis, an_recommended>>

\* if not results: return
AnNoResults ==
    /\ an_pc = "loaded" /\ an_results = <<>>
    /\ an_pc' = "returned"
    /\ UNCHANGED <<an_results, an_plot, an_analysis, an_recommended>>

\* fastest, most_efficient, best_balanced = plot_results(results)
AnPlot ==
    /\ an_pc = "loaded" /\ an_results # <<>>
    /\ Numeric(an_results)
    /\ an_plot' = <<plot_results(an_results)>>
    /\ an_pc' = "plotted"
    /\ UNCHANGED <<an_results, an_analysis, an_recommended>>

\* plot_results raises TypeError: main ends with a traceback
AnPlotRaises ==
    /\ an_pc = "loaded" /\ an_results # <<>>
    /\ ~Numeric(an_results)
    /\ an_pc' = "crashed"
    /\ UNCHANGED <<an_results, an_plot, an_analysis, an_recommended>>

\* analyze_results(results)
AnAnalyze ==
    /\ an_pc = "plotted"
    /\ an_analysis' = <<analyze_results(an_results)>>
    /\ an_pc' = "analyzed"
    /\ UNCHANGED <<an_results, an_plot, an_recommended>>

\* print(f"... the recommended number of robots is {best_balanced}.")
AnRecommend ==
    /\ an_pc = "analyzed"
    /\ an_recommended' = <<an_plot[1].best_balanced>>
    /\ an_pc' = "returned"
    /\ UNCHANGED <<an_results, an_plot, an_analysis>>

(***************************************************************************)
(* The configuration artifact: what readlines() returns, a sequence of     *)
(* lines; a line is a sequence of tokens, spaces and the newline included. *)
(***************************************************************************)
Field(name, val) == <<" ", " ", name, " ", "=", " ", val, "\n">>
Section(name) == <<name, "\n">>
Blank == <<"\n">>

default_config == <<
    Section("[configuration]"),
    Field("display", "0"), Field("led", "0"), Field("simulation", "1"),
    Field("mqtt", "0"), Field("robot", "5"), Field("obstacle", "5"),
    Field("seed", "150"), Field("field", "1"), Field("debug", "0"),
    Field("waittime", "1"), <<" ", " ", "step", "=", "1200", "\n">>,
    Blank,
    Section("[environment]"),
    Field("rows", "20"), Field("columns", "20"),
    Blank,
    Section("[display]"),
    Field("x", "210"), Field("y", "210"), Field("width", "1285"),
    Field("height", "650"), Field("title", "Display grid"),
    Blank, Blank,
    Section("[color]"),
    Field("robot", "0,255,0"), Field("goal", "50,50,50"),
    Field("other", "255,233,0"), Field("obstacle", "0,0,0"),
    Field("unknown", "50,50,0"), Field("package", "255,200,0"),
    Field("startzone", "255,255,255"), Field("transitzone", "0,0,255"),
    Field("exit", "255,0,0") >>

\* str.strip()
IsSpace(tok) == tok \in {" ", "\n", "\t"}
RECURSIVE LStrip(_)
LStrip(l) == IF l # <<>> /\ IsSpace(l[1]) THEN LStrip(Tail(l)) ELSE l
RECURSIVE RStrip(_)
RStrip(l) ==
    IF l # <<>> /\ IsSpace(l[Len(l)]) THEN RStrip(SubSeq(l, 1, Len(l) - 1)) ELSE l
Strip(l) == RStrip(LStrip(l))

\* str.startswith
StartsWith(l, prefix) ==
    Len(l) >= Len(prefix) /\ SubSeq(l, 1, Len(prefix)) = prefix
\* startswith("["): the tokens that begin with an opening bracket
BracketTokens == {"[configuration]", "[environment]", "[display]", "[color]", "["}
StartsWithBracket(l) == l # <<>> /\ l[1] \in BracketTokens

\* f"  robot = {num_robots}\n"
RobotLine(num_robots) == Field("robot", ToString(num_robots))

\* The loop of modify_config over the rest of the lines.
RECURSIVE ModifyLines(_, _, _)
ModifyLines(lines, in_configuration_section, num_robots) ==
    IF lines = <<>> THEN <<>>
    ELSE LET s == Strip(lines[1])
             sec == IF s = <<"[configuration]">> THEN TRUE
                    ELSE IF StartsWithBracket(s) THEN FALSE
                    ELSE in_configuration_section
         IN  <<IF sec /\ StartsWith(s, <<"robot", " ", "=">>)
               THEN RobotLine(num_robots) ELSE lines[1]>>
             \o ModifyLines(Tail(lines), sec, num_robots)

\* modify_config of run_robot_experiments.py, the older sweep: every line
\* whose stripped text starts with "robot =" is rewritten.
experiments_modify_config(lines, num_robots) ==
    [i \in 1..Len(lines) |->
        IF StartsWith(Strip(lines[i]), <<"robot", " ", "=">>)
        THEN <<" ", " ", "robot", " ", "=", " ", ToString(num_robots), "\n">>
        ELSE lines[i]]

\* An editor that tracks no section.
modify_config_any_section(lines, num_robots) ==
    [i \in 1..Len(lines) |->
        IF StartsWith(Strip(lines[i]), <<"robot", " ", "=">>)
        THEN RobotLine(num_robots) ELSE lines[i]]

\* An editor that adds the field when it finds none to rewrite.
modify_config_adds_field(lines, num_robots) ==
    IF ModifyLines(lines, FALSE, num_robots) = lines
    THEN Append(lines, RobotLine(num_robots))
    ELSE ModifyLines(lines, FALSE, num_robots)

\* An editor that writes the lines back as it read them.
modify_config_writes_nothing(lines, num_robots) == lines

\* modify_config: the artifact it writes back, given the lines it read.
modify_config(lines, num_robots) == ModifyLines(lines, FALSE, num_robots)

\* A reset that writes default_config before it copies the artifact.
fix_config_file_backup_last(cfg, bak, backed_up) ==
    [config |-> default_config,
     backup |-> IF backed_up THEN Some(default_config) ELSE bak]

\* A reset that makes the backup and leaves the artifact as it is.
fix_config_file_backup_only(cfg, bak, backed_up) ==
    [config |-> cfg,
     backup |-> IF backed_up THEN Some(cfg) ELSE bak]

\* fix_config_file: copy the artifact to the backup file (a failure of the
\* copy is caught and only logged), then write default_config.
fix_config_file(cfg, bak, backed_up) ==
    [config |-> default_config,
     backup |-> IF backed_up THEN Some(cfg) ELSE bak]

(***************************************************************************)
(* SpecConfig: the ConfigEditor on arbitrary artifacts.                    *)
(***************************************************************************)
MaxCfgLines == 4
MaxCfgCalls == 2
CfgValues == {3, 5}
NoNewline == <<"robot", " ", "=", " ", "5">>
CfgLines == {Section("[configuration]"), Section("[color]"),
             Field("robot", "5"),
             <<"robot", "=", "5", "\n">>,
             <<"[configuration]", " ", "#", "\n">>,
             NoNewline}
\* readlines(): only the last line of a file can lack its newline.
WellFormedFile(a) == \A i \in 1..(Len(a) - 1) : a[i][Len(a[i])] = "\n"
Artifacts == {a \in UNION {[1..n -> CfgLines] : n \in 0..MaxCfgLines} :
                  WellFormedFile(a)}

NoCall == [op |-> "none", v |-> 0, n |-> 0]

CfgIdle ==
    /\ config = <<>> /\ backup = None /\ cfg_before = <<>> /\ cfg_call = NoCall

CfgInit ==
    /\ config \in Artifacts /\ backup = None
    /\ cfg_before = config /\ cfg_call = NoCall

\* modify_config(v)
CfgModify ==
    /\ cfg_call.n < MaxCfgCalls
    /\ \E v \in CfgValues :
        /\ config' = modify_config(config, v)
        /\ cfg_call' = [op |-> "modify_config", v |-> v, n |-> cfg_call.n + 1]
    /\ cfg_before' = config
    /\ UNCHANGED backup

\* fix_config_file(): the backup is best effort, the write is not.
CfgFix ==
    /\ cfg_call.n < MaxCfgCalls
    /\ \E backed_up \in BOOLEAN :
        /\ config' = fix_config_file(config, backup, backed_up).config
        /\ backup' = fix_config_file(config, backup, backed_up).backup
        /\ cfg_call' = [op |-> "fix_config_file", v |-> IF backed_up THEN 1 ELSE 0,
                        n |-> cfg_call.n + 1]
    /\ cfg_before' = config

(***************************************************************************)
(* The groups at rest.                                                     *)
(***************************************************************************)
NoChild == [state |-> "none", returncode |-> 0, stdout |-> "closed"]
RunIdle ==
    /\ rpc = "idle" /\ now = 0 /\ start_time = 0 /\ wake = 0
    /\ child = NoChild /\ pipe = <<>> /\ output_lines = <<>>
    /\ total_steps = None /\ timed_out = FALSE /\ signals = <<>>
    /\ ret = <<>> /\ wrote = <<>>

NoArgs == [force_rerun |-> FALSE, clear_results |-> FALSE,
           specific_robots |-> <<>>, min_robots |-> 1, max_robots |-> 0]
NoFile == [kind |-> "missing", recs |-> <<>>]
NoSummary == [range |-> <<1, 0>>, end |-> "none", at |-> "", persisted |-> <<>>]
SweepIdle ==
    /\ inv = 0 /\ args = NoArgs /\ mpc = "idle" /\ results = <<>>
    /\ file = NoFile /\ robots_to_test = <<>> /\ idx = 0
    /\ consecutive_failures = 0 /\ clock = 0 /\ log = <<>>
    /\ persisted = <<>> /\ hist = <<>>

(***************************************************************************)
(* run_simulation.  The clock counts ticks of 100 ms.  The supervisor's    *)
(* own steps take no time; time passes while it sleeps or is blocked.      *)
(***************************************************************************)
timeout == 60
TimeoutTicks == timeout * 10
SleepPoll == 1            \* time.sleep(0.1)
SleepSettle == 5          \* time.sleep(0.5) before terminate()
SleepGrace == 5           \* time.sleep(0.5) after terminate()
TimeoutSentinel == -1
FallbackSteps == 1200
SIGTERM == 15
SIGKILL == 9

CorruptionLine ==
    Words(<<"ArrayIndexOutOfBoundsException", "at", "IniFile.getColorValue">>)
HasSignature(l) ==
    /\ Contains(l, <<"ArrayIndexOutOfBoundsException">>)
    /\ Contains(l, <<"IniFile.getColorValue">>)

\* The scan of the full output after the loop: the first line that passes
\* the guard and matches a pattern decides.
RECURSIVE ScanOutput(_)
ScanOutput(ol) ==
    IF ol = <<>> THEN None
    ELSE IF IsSome(ScanLine(ol[1])) THEN ScanLine(ol[1])
         ELSE ScanOutput(Tail(ol))

\* Variants of PostLoop: without the fallback of line 264, with the exit code
\* looked at before total_steps, and with a timeout reported as a failure.
PostLoopNoFallback(to, ts, ol, rc) ==
    IF to THEN [ret |-> Some(TimeoutSentinel), fix |-> FALSE]
    ELSE IF IsSome(ts) THEN [ret |-> ts, fix |-> FALSE]
    ELSE IF \E i \in 1..Len(ol) : HasSignature(ol[i])
         THEN [ret |-> None, fix |-> TRUE]
    ELSE [ret |-> None, fix |-> FALSE]

PostLoopExitCodeFirst(to, ts, ol, rc) ==
    IF to THEN [ret |-> Some(TimeoutSentinel), fix |-> FALSE]
    ELSE IF rc # 0 THEN [ret |-> None, fix |-> FALSE]
    ELSE IF IsSome(ts) THEN [ret |-> ts, fix |-> FALSE]
    ELSE IF \E i \in 1..Len(ol) : HasSignature(ol[i])
         THEN [ret |-> None, fix |-> TRUE]
    ELSE [ret |-> Some(FallbackSteps), fix |-> FALSE]

PostLoopNoSentinel(to, ts, ol, rc) ==
    IF to THEN [ret |-> None, fix |-> FALSE]
    ELSE IF IsSome(ts) THEN [ret |-> ts, fix |-> FALSE]
    ELSE IF \E i \in 1..Len(ol) : HasSignature(ol[i])
         THEN [ret |-> None, fix |-> TRUE]
    ELSE IF rc # 0 THEN [ret |-> None, fix |-> FALSE]
    ELSE [ret |-> Some(FallbackSteps), fix |-> FALSE]

\* What run_simulation does once its loop is over: the value it returns and
\* whether it calls fix_config_file on the way.  The loop ends only with the
\* child polled as exited, with timed_out set or with total_steps set, so
\* process.wait(timeout=5) is never reached with a live child.
PostLoop(to, ts, ol, rc) ==
    IF to THEN [ret |-> Some(TimeoutSentinel), fix |-> FALSE]
    ELSE IF IsSome(ts) THEN [ret |-> ts, fix |-> FALSE]
    ELSE IF \E i \in 1..Len(ol) : HasSignature(ol[i])
         THEN [ret |-> None, fix |-> TRUE]
    ELSE IF rc # 0 THEN [ret |-> None, fix |-> FALSE]
    ELSE IF IsSome(ScanOutput(ol)) THEN [ret |-> ScanOutput(ol), fix |-> FALSE]
    ELSE [ret |-> Some(FallbackSteps), fix |-> FALSE]

(***************************************************************************)
(* SpecRun: one call of run_simulation against an arbitrary child.         *)
(***************************************************************************)
MaxWrites == 1
MaxOvertime == 10
MaxTime == TimeoutTicks + SleepSettle + SleepGrace + MaxOvertime
RunLines == {Variant1(<<3>>, <<9>>), Words(<<"Robot", "moved">>), CorruptionLine}
ExitCodes == {0, 1}
BrokenConfig == [default_config EXCEPT ![27] = Field("robot", "0,255")]

RunInit ==
    /\ rpc = "call" /\ now = 0 /\ start_time = 0 /\ wake = 0
    /\ child = NoChild /\ pipe = <<>> /\ output_lines = <<>>
    /\ total_steps = None /\ timed_out = FALSE /\ signals = <<>>
    /\ ret = <<>> /\ wrote = <<>>
    /\ config = BrokenConfig /\ backup = None
    /\ cfg_before = BrokenConfig /\ cfg_call = NoCall

RunCfgSame == UNCHANGED <<config, backup, cfg_before, cfg_call>>

\* process = subprocess.Popen(...); start_time = time.time()
Popen ==
    /\ rpc = "call"
    /\ child' = [state |-> "running", returncode |-> 0, stdout |-> "open"]
    /\ start_time' = now
    /\ rpc' = "loop"
    /\ UNCHANGED <<now, wake, pipe, output_lines, total_steps, timed_out,
                   signals, ret, wrote>>
    /\ RunCfgSame

\* Popen raises (no java on the path): except Exception -> return None
PopenRaises ==
    /\ rpc = "call"
    /\ ret' = <<None>>
    /\ rpc' = "returned"
    /\ UNCHANGED <<now, start_time, wake, child, pipe, output_lines,
                   total_steps, timed_out, signals, wrote>>
    /\ RunCfgSame

\* while process.poll() is None: the child has exited, the loop is over
LoopExited ==
    /\ rpc = "loop" /\ child.state = "exited"
    /\ rpc' = "after_loop"
    /\ UNCHANGED <<now, start_time, wake, child, pipe, output_lines,
                   total_steps, timed_out, signals, ret, wrote>>
    /\ RunCfgSame

\* if time.time() - start_time > timeout: timed_out = True; process.kill(); break
\* kill() sends the signal and returns; nothing waits for the child to die
LoopTimeout ==
    /\ rpc = "loop" /\ child.state = "running"
    /\ now - start_time > TimeoutTicks
    /\ timed_out' = TRUE
    /\ signals' = Append(signals, SIGKILL)
    /\ rpc' = "after_loop"
    /\ UNCHANGED <<now, start_time, wake, child, pipe, output_lines,
                   total_steps, ret, wrote>>
    /\ RunCfgSame

\* the loop goes on to process.stdout.readline()
LoopRead ==
    /\ rpc = "loop" /\ child.state = "running"
    /\ ~(now - start_time > TimeoutTicks)
    /\ rpc' = "readline"
    /\ UNCHANGED <<now, start_time, wake, child, pipe, output_lines,
                   total_steps, timed_out, signals, ret, wrote>>
    /\ RunCfgSame

\* readline() returns a line: it is appended and scanned
ReadLine ==
    /\ rpc = "readline" /\ pipe # <<>>
    /\ pipe' = Tail(pipe)
    /\ output_lines' = Append(output_lines, pipe[1])
    /\ total_steps' = ScanLine(pipe[1])
    /\ IF IsSome(ScanLine(pipe[1]))
       THEN rpc' = "settle" /\ wake' = now + SleepSettle
       ELSE rpc' = "loop" /\ wake' = wake
    /\ UNCHANGED <<now, start_time, child, timed_out, signals, ret, wrote>>
    /\ RunCfgSame

\* readline() returns '' at end of file: sleep(0.1); continue
ReadEof ==
    /\ rpc = "readline" /\ pipe = <<>> /\ child.stdout = "closed"
    /\ rpc' = "poll_sleep" /\ wake' = now + SleepPoll
    /\ UNCHANGED <<now, start_time, child, pipe, output_lines, total_steps,
                   timed_out, signals, ret, wrote>>
    /\ RunCfgSame

PollSleepOver ==
    /\ rpc = "poll_sleep" /\ now >= wake
    /\ rpc' = "loop"
    /\ UNCHANGED <<now, start_time, wake, child, pipe, output_lines,
                   total_steps, timed_out, signals, ret, wrote>>
    /\ RunCfgSame

\* time.sleep(0.5) is over: process.terminate(); time.sleep(0.5)
Terminate ==
    /\ rpc = "settle" /\ now >= wake
    /\ signals' = Append(signals, SIGTERM)
    /\ rpc' = "grace" /\ wake' = now + SleepGrace
    /\ UNCHANGED <<now, start_time, child, pipe, output_lines, total_steps,
                   timed_out, ret, wrote>>
    /\ RunCfgSame

\* if process.poll() is None: process.kill(); then both breaks
GraceOver ==
    /\ rpc = "grace" /\ now >= wake
    /\ IF child.state = "running"
       THEN signals' = Append(signals, SIGKILL)
       ELSE UNCHANGED signals
    /\ rpc' = "after_loop"
    /\ UNCHANGED <<now, start_time, wake, child, pipe, output_lines,
                   total_steps, timed_out, ret, wrote>>
    /\ RunCfgSame

\* everything after the loop, a call of fix_config_file included
AfterLoop ==
    /\ rpc = "after_loop"
    /\ LET r == PostLoop(timed_out, total_steps, output_lines, child.returncode)
       IN  /\ ret' = <<r.ret>>
           /\ IF r.fix
              THEN \E outcome \in {"ok", "no_backup", "raises"} :
                     /\ cfg_call' = [op |-> "fix_config_file",
                                     v |-> IF outcome = "ok" THEN 1 ELSE 0,
                                     n |-> cfg_call.n + 1]
                     /\ cfg_before' = config
                     /\ IF outcome = "raises"
                        THEN UNCHANGED <<config, backup>>
                        ELSE /\ config' = fix_config_file(config, backup,
                                              outcome = "ok").config
                             /\ backup' = fix_config_file(config, backup,
                                              outcome = "ok").backup
              ELSE RunCfgSame
    /\ rpc' = "returned"
    /\ UNCHANGED <<now, start_time, wake, child, pipe, output_lines,
                   total_steps, timed_out, signals, wrote>>

\* ---- the child
\* a line on stdout
ChildWrite ==
    /\ child.state = "running" /\ child.stdout = "open"
    /\ Len(wrote) < MaxWrites
    /\ \E l \in RunLines :
        /\ pipe' = Append(pipe, l)
        /\ wrote' = Append(wrote, l)
    /\ UNCHANGED <<rpc, now, start_time, wake, child, output_lines,
                   total_steps, timed_out, signals, ret>>
    /\ RunCfgSame

\* stderr=subprocess.PIPE: what the child writes there reaches no readline();
\* an uncaught exception of the JVM is printed on this stream
ChildWriteErr ==
    /\ child.state = "running"
    /\ Len(wrote) < MaxWrites
    /\ wrote' = Append(wrote, CorruptionLine)
    /\ UNCHANGED <<rpc, now, start_time, wake, child, pipe, output_lines,
                   total_steps, timed_out, signals, ret>>
    /\ RunCfgSame

ChildCloseStdout ==
    /\ child.state = "running" /\ child.stdout = "open"
    /\ child' = [child EXCEPT !.stdout = "closed"]
    /\ UNCHANGED <<rpc, now, start_time, wake, pipe, output_lines,
                   total_steps, timed_out, signals, ret, wrote>>
    /\ RunCfgSame

\* the child exits by itself, or dies of a signal it was sent
ChildExit ==
    /\ child.state = "running"
    /\ \E rc \in ExitCodes \cup {-s : s \in Range(signals)} :
        child' = [state |-> "exited", returncode |-> rc, stdout |-> "closed"]
    /\ UNCHANGED <<rpc, now, start_time, wake, pipe, output_lines,
                   total_steps, timed_out, signals, ret, wrote>>
    /\ RunCfgSame

\* ---- the clock
Blocked ==
    \/ rpc \in {"poll_sleep", "settle", "grace"} /\ now < wake
    \/ rpc = "readline" /\ pipe = <<>> /\ child.stdout = "open"

Tick ==
    /\ Blocked
    /\ now < MaxTime
    /\ now' = now + 1
    /\ UNCHANGED <<rpc, start_time, wake, child, pipe, output_lines,
                   total_steps, timed_out, signals, ret, wrote>>
    /\ RunCfgSame

RunFrame == UNCHANGED <<parseVars, anVars, sweepVars>>
InitRun == RunInit /\ ParseIdle /\ AnIdle /\ SweepIdle
NextRun ==
    \/ Popen /\ RunFrame
    \/ PopenRaises /\ RunFrame
    \/ LoopExited /\ RunFrame
    \/ LoopTimeout /\ RunFrame
    \/ LoopRead /\ RunFrame
    \/ ReadLine /\ RunFrame
    \/ ReadEof /\ RunFrame
    \/ PollSleepOver /\ RunFrame
    \/ Terminate /\ RunFrame
    \/ GraceOver /\ RunFrame
    \/ AfterLoop /\ RunFrame
    \/ ChildWrite /\ RunFrame
    \/ ChildWriteErr /\ RunFrame
    \/ ChildCloseStdout /\ RunFrame
    \/ ChildExit /\ RunFrame
    \/ Tick /\ RunFrame
SpecRun == InitRun /\ [][NextRun]_vars

(***************************************************************************)
(* main of run_robot_optimization.py: the sweep, as one invocation and the *)
(* invocation that follows it (a rerun after Done, or a restart after the  *)
(* controller was killed).                                                 *)
(*                                                                         *)
(* RESULTS_FILE is [kind, recs]: "missing", "empty" (no bytes: opened for   *)
(* writing and nothing flushed yet), "torn" (a proper prefix of a JSON      *)
(* text, which is never valid JSON) or "json" (the list recs).             *)
(***************************************************************************)
MIN_ROBOTS == 1
MaxRobots == 2

JsonFileWithoutLast(recs) ==
    [kind |-> "json", recs |-> SubSeq(recs, 1, Len(recs) - 1)]
JsonFile(recs) == [kind |-> "json", recs |-> recs]
EmptyFile == [kind |-> "empty", recs |-> <<>>]
TornFile == [kind |-> "torn", recs |-> <<>>]
\* valid JSON that is not a list: a number
ScalarFile == [kind |-> "scalar", recs |-> <<>>]

Plain == [force_rerun |-> FALSE, clear_results |-> FALSE,
          specific_robots |-> <<>>, min_robots |-> MIN_ROBOTS,
          max_robots |-> MaxRobots]
ArgChoices == {Plain,
               [Plain EXCEPT !.force_rerun = TRUE],
               [Plain EXCEPT !.clear_results = TRUE],
               [Plain EXCEPT !.specific_robots = <<2, 1>>]}

NoRobotField ==
    [default_config EXCEPT ![6] = <<" ", " ", "robot", "=", "5", "\n">>]
InitialConfigs == {default_config, NoRobotField}

\* list(range(lo, hi + 1))
RangeList(lo, hi) == [i \in 1..(IF hi >= lo THEN hi - lo + 1 ELSE 0) |-> lo + i - 1]

UntestedIgnoresStore(ns, tested) == ns

\* [n for n in range(...) if n not in tested_robots]
RECURSIVE Untested(_, _)
Untested(ns, tested) ==
    IF ns = <<>> THEN <<>>
    ELSE (IF ns[1] \in tested THEN <<>> ELSE <<ns[1]>>)
             \o Untested(Tail(ns), tested)

LoadIgnoresFile(a, f) == [results |-> <<>>, file |-> f, crash |-> FALSE]

\* The store main starts from and the file it leaves, lines 389-414.  Only
\* JSONDecodeError and FileNotFoundError are caught: on a number
\* len(results) raises TypeError and main ends with a traceback.
Load(a, f) ==
    IF a.clear_results
    THEN [results |-> <<>>, file |-> JsonFile(<<>>), crash |-> FALSE]
    ELSE IF ~a.force_rerun /\ f.kind # "missing"
         THEN CASE f.kind = "empty" ->
                       [results |-> <<>>, file |-> f, crash |-> FALSE]
                [] f.kind = "json" ->
                       [results |-> f.recs, file |-> f, crash |-> FALSE]
                [] f.kind = "torn" ->
                       [results |-> <<>>, file |-> JsonFile(<<>>),
                        crash |-> FALSE]
                [] f.kind = "scalar" ->
                       [results |-> <<>>, file |-> f, crash |-> TRUE]
         ELSE [results |-> <<>>, file |-> f, crash |-> FALSE]

PendingWholeRange(a, rs) == RangeList(a.min_robots, a.max_robots)

\* robots_to_test, lines 416-425.
Pending(a, rs) ==
    IF a.specific_robots # <<>> THEN a.specific_robots
    ELSE IF a.force_rerun THEN RangeList(a.min_robots, a.max_robots)
    ELSE Untested(RangeList(a.min_robots, a.max_robots),
                  {rs[i].num_robots : i \in 1..Len(rs)})

\* A record that marks the timeout as failed but stores the sentinel itself.
ResultKeepsSentinel(p, v, ts) ==
    IF v = TimeoutSentinel THEN Record(p, JInt(v), "failed", ts)
    ELSE Record(p, JInt(v), "success", ts)

ResultOmitsFailures(p, v, ts) == Record(p, JInt(v), "success", ts)

\* The record main builds from a value run_simulation returned, lines 445-461.
Result(p, v, ts) ==
    IF v = TimeoutSentinel THEN Record(p, JStr("TIMEOUT"), "failed", ts)
    ELSE Record(p, JInt(v), "success", ts)

\* What the loop of run_simulation can hand over to the code after it.
Observation(kind, to, ts, ol, rc) ==
    [kind |-> kind, timed_out |-> to, total_steps |-> ts,
     output_lines |-> ol, returncode |-> rc]
RunObservations == {
    Observation("completed", FALSE, ScanLine(Variant1(<<3>>, <<9>>)),
                <<Variant1(<<3>>, <<9>>)>>, -SIGTERM),
    Observation("timeout", TRUE, None, <<>>, -SIGKILL),
    Observation("silent_exit", FALSE, None, <<Words(<<"Robot", "moved">>)>>, 0),
    Observation("failed_exit", FALSE, None, <<>>, 1),
    Observation("corrupted", FALSE, None, <<CorruptionLine>>, 1) }

Event(e, p, k) == [e |-> e, p |-> p, k |-> k]
Recs(f) == IF f.kind = "json" THEN f.recs ELSE <<>>

SweepInit ==
    /\ inv = 0 /\ args = NoArgs /\ mpc = "idle" /\ results = <<>>
    /\ file = NoFile /\ robots_to_test = <<>> /\ idx = 0
    /\ consecutive_failures = 0 /\ clock = 0 /\ log = <<>>
    /\ persisted = <<>> /\ hist = <<>>
    /\ config \in InitialConfigs /\ backup = None
    /\ cfg_before = <<>> /\ cfg_call = NoCall

\* main up to the for loop, lines 389-433
Main(a) ==
    /\ args' = a
    /\ results' = Load(a, file).results
    /\ file' = Load(a, file).file
    /\ robots_to_test' = IF Load(a, file).crash THEN <<>>
                         ELSE Pending(a, Load(a, file).results)
    /\ persisted' = Recs(Load(a, file).file)
    /\ inv' = inv + 1
    /\ clock' = clock + 1
    /\ idx' = 1
    /\ consecutive_failures' = 0
    /\ log' = <<>>
    /\ mpc' = IF Load(a, file).crash THEN "crashed" ELSE "loop"
    /\ UNCHANGED <<hist, config, backup, cfg_before, cfg_call>>

\* python3 run_robot_optimization.py ...: the first invocation
Start ==
    /\ mpc = "idle"
    /\ \E a \in ArgChoices : Main(a)

\* the next invocation, after the first one finished or was killed
Restart ==
    /\ mpc \in {"done", "killed"}
    /\ inv = 1           \* the model follows one sweep and its successor
    /\ \E a \in ArgChoices : Main(a)

\* A loop that stays on the element it just handled.
AdvanceStays(i) == i

\* for num_robots in robots_to_test: the position of the next element
Advance(i) == i + 1

\* for num_robots in robots_to_test: modify_config(num_robots)
Configure ==
    /\ mpc = "loop" /\ idx <= Len(robots_to_test)
    /\ config' = modify_config(config, robots_to_test[idx])
    /\ log' = Append(log, Event("configure", robots_to_test[idx], ""))
    /\ mpc' = "configured"
    /\ UNCHANGED <<inv, args, results, file, robots_to_test, idx,
                   consecutive_failures, clock, persisted, hist,
                   backup, cfg_before, cfg_call>>

\* The effect on the artifact of the fix_config_file calls of one pass of
\* the loop: calls is the sequence of their outcomes ("ok" or "raises").
RECURSIVE Fixes(_, _)
Fixes(c, calls) ==
    IF calls = <<>> THEN c
    ELSE Fixes(IF calls[1] = "ok"
               THEN fix_config_file(c.config, c.backup, TRUE)
               ELSE c,
               Tail(calls))

ApplyFixes(calls) ==
    LET c == Fixes([config |-> config, backup |-> backup], calls)
    IN  /\ config' = c.config /\ backup' = c.backup
        /\ UNCHANGED <<cfg_before, cfg_call>>

\* one event per call of fix_config_file: where it was called from, and
\* whether it returned or raised
FixEvents(p, calls, where) ==
    [i \in 1..Len(calls) |->
        Event(IF calls[i] = "ok" THEN "fix" ELSE "fix_raised", p, where[i])]

\* if consecutive_failures >= 2
Recover(failures) == failures >= 2

\* total_steps = run_simulation() returned a value: the record is appended
\* and RESULTS_FILE is opened for writing, lines 443-466
RunRecorded ==
    /\ mpc = "configured"
    /\ \E obs \in RunObservations :
        LET p == robots_to_test[idx]
            r == PostLoop(obs.timed_out, obs.total_steps, obs.output_lines,
                          obs.returncode)
        IN  /\ IsSome(r.ret)
            /\ results' = Append(results, Result(p, Val(r.ret), clock))
            /\ log' = log \o <<Event("launch", p, obs.kind),
                               Event("record", p,
                                     Result(p, Val(r.ret), clock).status)>>
    /\ file' = EmptyFile
    /\ mpc' = "saving"
    /\ UNCHANGED <<inv, args, robots_to_test, idx, consecutive_failures, clock,
                   persisted, hist, config, backup, cfg_before, cfg_call>>

\* json.dump(results, f) is flushed and the file closed;
\* consecutive_failures = 0, lines 467-472
SaveResults ==
    /\ mpc = "saving"
    /\ file' = JsonFile(results)
    /\ persisted' = results
    /\ consecutive_failures' = 0
    /\ idx' = Advance(idx)
    /\ mpc' = "loop"
    /\ UNCHANGED <<inv, args, results, robots_to_test, clock, log, hist,
                   config, backup, cfg_before, cfg_call>>

\* total_steps = run_simulation() returned None, lines 473-488; the run may
\* have called fix_config_file itself, and main calls it after repeated
\* failures; only a raise in main's call leaves the loop
RunSkipped ==
    /\ mpc = "configured"
    /\ \E obs \in RunObservations, in_run \in {"ok", "raises"},
          in_main \in {"ok", "raises"} :
        LET p == robots_to_test[idx]
            r == PostLoop(obs.timed_out, obs.total_steps, obs.output_lines,
                          obs.returncode)
            first == IF r.fix THEN <<in_run>> ELSE <<>>
            second == IF Recover(consecutive_failures + 1)
                      THEN <<in_main>> ELSE <<>>
        IN  /\ r.ret = None
            /\ r.fix \/ in_run = "ok"
            /\ Recover(consecutive_failures + 1) \/ in_main = "ok"
            /\ ApplyFixes(first \o second)
            /\ log' = log \o <<Event("launch", p, obs.kind)>>
                          \o FixEvents(p, first \o second,
                                 [i \in 1..2 |-> IF i = 1 /\ r.fix
                                                 THEN "run_simulation" ELSE "main"])
            /\ consecutive_failures' =
                   IF ~Recover(consecutive_failures + 1)
                   THEN consecutive_failures + 1
                   ELSE IF in_main = "ok" THEN 0 ELSE consecutive_failures + 1
            /\ mpc' = IF Recover(consecutive_failures + 1) /\ in_main = "raises"
                      THEN "break" ELSE "loop"
    /\ idx' = Advance(idx)
    /\ UNCHANGED <<inv, args, results, file, robots_to_test, clock,
                   persisted, hist>>

\* the loop is over: results.sort(...) and RESULTS_FILE is opened for
\* writing, lines 490-494
Finalize ==
    /\ \/ mpc = "loop" /\ idx > Len(robots_to_test)
       \/ mpc = "break"
    /\ results' = SortByRobots(results)
    /\ file' = EmptyFile
    /\ mpc' = "final_saving"
    /\ UNCHANGED <<inv, args, robots_to_test, idx, consecutive_failures,
                   clock, log, persisted, hist,
                   config, backup, cfg_before, cfg_call>>

\* the sorted list is flushed; the summary and the plots change no file
FinalSave ==
    /\ mpc = "final_saving"
    /\ file' = JsonFile(results)
    /\ persisted' = results
    /\ hist' = Append(hist, [range |-> <<args.min_robots, args.max_robots>>,
                             end |-> "done", at |-> "final_saving",
                             persisted |-> results])
    /\ mpc' = "done"
    /\ UNCHANGED <<inv, args, results, robots_to_test, idx,
                   consecutive_failures, clock, log,
                   config, backup, cfg_before, cfg_call>>

\* the controller process is killed; a write in progress is left with
\* nothing or with a part of the text in the file
Kill ==
    /\ mpc \in {"loop", "configured", "saving", "break", "final_saving"}
    /\ hist' = Append(hist, [range |-> <<args.min_robots, args.max_robots>>,
                             end |-> "killed", at |-> mpc,
                             persisted |-> persisted])
    /\ IF mpc \in {"saving", "final_saving"}
       THEN file' \in {EmptyFile, TornFile}
       ELSE file' = file
    /\ mpc' = "killed"
    /\ results' = <<>> /\ robots_to_test' = <<>> /\ idx' = 0
    /\ consecutive_failures' = 0 /\ log' = <<>> /\ args' = NoArgs
    /\ persisted' = <<>>
    /\ UNCHANGED <<inv, clock, config, backup, cfg_before, cfg_call>>

\* The exit status of the process once main is over: 0 when main returns,
\* 1 when an exception leaves it; None while it runs or after a kill.
exit_status ==
    CASE mpc = "done" -> Some(0)
      [] mpc = "crashed" -> Some(1)
      [] OTHER -> None

SweepFrame == UNCHANGED <<parseVars, anVars, runVars>>
Init == SweepInit /\ ParseIdle /\ AnIdle /\ RunIdle
Next ==
    \/ Start /\ SweepFrame
    \/ Restart /\ SweepFrame
    \/ Configure /\ SweepFrame
    \/ RunRecorded /\ SweepFrame
    \/ SaveResults /\ SweepFrame
    \/ RunSkipped /\ SweepFrame
    \/ Finalize /\ SweepFrame
    \/ FinalSave /\ SweepFrame
    \/ Kill /\ SweepFrame
Spec == Init /\ [][Next]_vars

\* a step of main itself
MainStep ==
    \/ Configure /\ SweepFrame
    \/ RunRecorded /\ SweepFrame
    \/ SaveResults /\ SweepFrame
    \/ RunSkipped /\ SweepFrame
    \/ Finalize /\ SweepFrame
    \/ FinalSave /\ SweepFrame

(***************************************************************************)
(* SpecCli: one invocation of main on the command lines argparse accepts.  *)
(* --min-robots, --max-robots and --specific-robots are parsed with        *)
(* type=int and nothing else: any integer goes through.                    *)
(***************************************************************************)
CliChoices ==
    {[force_rerun |-> fr, clear_results |-> FALSE, specific_robots |-> sp,
      min_robots |-> lo, max_robots |-> hi] :
        fr \in BOOLEAN, sp \in {<<>>, <<0>>, <<-1, 1>>},
        lo \in {0, 1}, hi \in {1, MaxRobots}}

\* args = parser.parse_args(), then main as above
StartCli ==
    /\ mpc = "idle"
    /\ \E a \in CliChoices : Main(a)

NextCli ==
    \/ StartCli /\ SweepFrame
    \/ Configure /\ SweepFrame
    \/ RunRecorded /\ SweepFrame
    \/ SaveResults /\ SweepFrame
    \/ RunSkipped /\ SweepFrame
    \/ Finalize /\ SweepFrame
    \/ FinalSave /\ SweepFrame
SpecCli == Init /\ [][NextCli]_vars

(***************************************************************************)
(* SpecLoad: the start of main on an arbitrary result file.                *)
(***************************************************************************)
MaxStoreLen == 2
StoredRecords == {Result(p, v, 0) : p \in MIN_ROBOTS..MaxRobots,
                                    v \in {9, 12, TimeoutSentinel}}
Stores == UNION {[1..n -> StoredRecords] : n \in 0..MaxStoreLen}
LoadFiles == {NoFile, EmptyFile, TornFile, ScalarFile}
                 \cup {JsonFile(rs) : rs \in Stores}

LoadInit ==
    /\ inv = 0 /\ args = NoArgs /\ mpc = "idle" /\ results = <<>>
    /\ file \in LoadFiles /\ robots_to_test = <<>> /\ idx = 0
    /\ consecutive_failures = 0 /\ clock = 0 /\ log = <<>>
    /\ persisted = <<>> /\ hist = <<>>
    /\ config = default_config /\ backup = None
    /\ cfg_before = <<>> /\ cfg_call = NoCall

InitLoad == LoadInit /\ ParseIdle /\ AnIdle /\ RunIdle
NextLoad == Start /\ SweepFrame
SpecLoad == InitLoad /\ [][NextLoad]_vars

(***************************************************************************)
(* The specifications of the pure parts.                                   *)
(***************************************************************************)
InitParse == ParseInit /\ AnIdle /\ CfgIdle /\ RunIdle /\ SweepIdle
NextParse == Scan /\ UNCHANGED <<anVars, cfgVars, runVars, sweepVars>>
SpecParse == InitParse /\ [][NextParse]_vars

AnFrame == UNCHANGED <<parseVars, cfgVars, runVars, sweepVars>>
InitAnalyze == AnInit /\ ParseIdle /\ CfgIdle /\ RunIdle /\ SweepIdle
NextAnalyze ==
    \/ AnLoad /\ AnFrame
    \/ AnNoResults /\ AnFrame
    \/ AnPlot /\ AnFrame
    \/ AnPlotRaises /\ AnFrame
    \/ AnAnalyze /\ AnFrame
    \/ AnRecommend /\ AnFrame
SpecAnalyze == InitAnalyze /\ [][NextAnalyze]_vars

CfgFrame == UNCHANGED <<parseVars, anVars, runVars, sweepVars>>
InitConfig == CfgInit /\ ParseIdle /\ AnIdle /\ RunIdle /\ SweepIdle
NextConfig ==
    \/ CfgModify /\ CfgFrame
    \/ CfgFix /\ CfgFrame
SpecConfig == InitConfig /\ [][NextConfig]_vars

\* The older sweep's editor on the same artifacts.
\* run_robot_experiments.modify_config(v)
ExpModify ==
    /\ cfg_call.n < MaxCfgCalls
    /\ \E v \in CfgValues :
        /\ config' = experiments_modify_config(config, v)
        /\ cfg_call' = [op |-> "experiments.modify_config", v |-> v,
                        n |-> cfg_call.n + 1]
    /\ cfg_before' = config
    /\ UNCHANGED backup
NextExperiments == ExpModify /\ CfgFrame
SpecExperiments == InitConfig /\ [][NextExperiments]_vars

(***************************************************************************)
(* Claims about the pure parts.                                            *)
(***************************************************************************)
Changed == {i \in 1..Len(cfg_before) : i > Len(config) \/ config[i] # cfg_before[i]}
\* Line i is a "robot =" line that lies inside a [configuration] section.
OwnsRobotField(a, i) ==
    /\ StartsWith(Strip(a[i]), <<"robot", " ", "=">>)
    /\ \E j \in 1..i :
        /\ Strip(a[j]) = <<"[configuration]">>
        /\ \A k \in (j + 1)..i : ~StartsWithBracket(Strip(a[k]))
Owned(a) == {i \in 1..Len(a) : OwnsRobotField(a, i)}

\* C3 as stated: for every artifact and every value, modify_config changes
\* exactly one line, the "robot =" line of the [configuration] section, and
\* leaves every other line identical and in the same position.
C3_ExactlyOneLine ==
    cfg_call.op = "modify_config" =>
        /\ Len(config) = Len(cfg_before)
        /\ Cardinality(Changed) = 1
        /\ \A i \in Changed : OwnsRobotField(cfg_before, i)

\* C3 amended: modify_config rewrites every "robot =" line that lies inside
\* a [configuration] section to "  robot = <value>\n" and leaves every other
\* line identical and in the same position; so exactly one line changes when
\* the artifact has exactly one such line and it differs from the new text,
\* and none changes when the artifact has no such line.
C3_ConfigFieldIsolation ==
    cfg_call.op = "modify_config" =>
        /\ Len(config) = Len(cfg_before)
        /\ \A i \in 1..Len(cfg_before) :
            config[i] = IF OwnsRobotField(cfg_before, i)
                        THEN RobotLine(cfg_call.v) ELSE cfg_before[i]
        /\ Owned(cfg_before) = {} => Changed = {}
        /\ (/\ Cardinality(Owned(cfg_before)) = 1
            /\ \A i \in Owned(cfg_before) : cfg_before[i] # RobotLine(cfg_call.v))
           => Cardinality(Changed) = 1

\* A call that changed the one owned line and left a "robot =" line of
\* another section alone.
C3_Witness ==
    /\ cfg_call.op = "modify_config"
    /\ Cardinality(Changed) = 1
    /\ \E i \in 1..Len(cfg_before) :
        /\ StartsWith(Strip(cfg_before[i]), <<"robot", " ", "=">>)
        /\ ~OwnsRobotField(cfg_before, i)
        /\ config[i] = cfg_before[i]

\* C5 as stated: a line consisting of any of the three variants is detected
\* and yields its step count N.
C5_EveryVariantDetected ==
    scanned # <<>> =>
        \A k \in PackageCounts, n \in DigitSeqs :
            /\ line = Variant1(k, n) => scanned[1] = Some(IntOf(n))
            /\ line = Variant2(n) => scanned[1] = Some(IntOf(n))
            /\ line = Variant3(n) => scanned[1] = Some(IntOf(n))

\* C5 amended: a line "All K packages delivered in N steps" or "All packages
\* delivered in N steps" (alone or inside a longer line) yields N, never K;
\* "delivered in N steps" yields N only on a line that also contains "All",
\* "packages delivered in" and "steps"; a line consisting of "delivered in N
\* steps" alone is not detected; when several patterns match a line the first
\* in list order decides.
C5_CompletionParsing ==
    scanned # <<>> =>
        \A k \in PackageCounts, n \in DigitSeqs :
            /\ line \in {Variant1(k, n), Prefixed(Variant1(k, n))}
                   => scanned[1] = Some(IntOf(n))
            /\ line \in {Variant2(n), Prefixed(Variant2(n))}
                   => scanned[1] = Some(IntOf(n))
            /\ line \in {AllThe(n), Prefixed(AllThe(n))}
                   => scanned[1] = Some(IntOf(n))
            /\ line \in {Variant3(n), Prefixed(Variant3(n))} => scanned[1] = None
            /\ line \in {Double(k, n), Prefixed(Double(k, n))}
                   => scanned[1] = Some(IntOf(n))

\* The first variant scanned, with a package count that differs from the
\* step count and a step count written with a leading zero.
C5_Witness ==
    /\ line = Variant1(<<3>>, <<0, 9>>)
    /\ scanned = <<Some(9)>>

\* C6 as stated: on the example, fastest = (3,50) and most-efficient = (3,50).
C6_ExampleAsStated ==
    (an_results = Example /\ an_analysis # <<>>) =>
        /\ an_analysis[1].fastest_robots = 3
        /\ an_analysis[1].fastest_steps = 50
        /\ an_analysis[1].most_efficient_robots = 3
        /\ an_analysis[1].most_efficient_steps = 50

\* C6 amended: on the example, fastest = (3,50) and most-efficient = (4,55),
\* since 55/4 = 13.75 is the minimum of steps/parameter (50/3 = 16.7).
C6_AnalyzerExample ==
    (an_results = Example /\ an_analysis # <<>>) =>
        /\ an_analysis[1].fastest_robots = 3
        /\ an_analysis[1].fastest_steps = 50
        /\ an_analysis[1].most_efficient_robots = 4
        /\ an_analysis[1].most_efficient_steps = 55

C6_Witness == an_results = Example /\ an_analysis # <<>> /\ an_pc = "returned"

\* C7: on a non-empty list of success records with positive parameters,
\* fastest is the parameter of a record of minimum total_steps, most-efficient
\* that of a record minimising total_steps/num_robots, best-balanced that of a
\* record minimising total_steps^2 * num_robots, and the recommendation that
\* main prints is the best-balanced parameter.
C7_AnalyzerMetrics ==
    an_analysis # <<>> =>
        LET a == an_analysis[1]
            rs == Range(an_results)
        IN  /\ \E r \in rs :
                /\ Robots(r) = a.fastest_robots /\ Steps(r) = a.fastest_steps
                /\ \A q \in rs : Steps(r) <= Steps(q)
            /\ \E r \in rs :
                /\ Robots(r) = a.most_efficient_robots
                /\ Steps(r) = a.most_efficient_steps
                /\ \A q \in rs : Steps(r) * Robots(q) <= Steps(q) * Robots(r)
            /\ \E r \in rs :
                /\ Robots(r) = a.best_balanced_robots
                /\ Steps(r) = a.best_balanced_steps
                /\ \A q \in rs : Steps(r) * Steps(r) * Robots(r)
                                     <= Steps(q) * Steps(q) * Robots(q)
            /\ an_recommended # <<>> => an_recommended[1] = a.best_balanced_robots

\* A list on which the three optima are three different parameters.
C7_Witness ==
    /\ an_recommended # <<>>
    /\ an_analysis[1].fastest_robots # an_analysis[1].most_efficient_robots
    /\ an_analysis[1].fastest_robots # an_analysis[1].best_balanced_robots
    /\ an_analysis[1].most_efficient_robots # an_analysis[1].best_balanced_robots

Successes(rs) == SelectSeq(rs, LAMBDA r : r.status = "success")

\* C17: a record with status 'failed' in the store never makes the analysis
\* fail, and the values reported are those of the Success records alone.
C17_AnalyzerInput ==
    (an_pc \notin {"file", "loaded"} /\ Successes(an_results) # <<>>) =>
        /\ an_pc # "crashed"
        /\ an_analysis # <<>> =>
               an_analysis[1] = analyze_results(Successes(an_results))

(***************************************************************************)
(* Claims about one supervised run.                                        *)
(***************************************************************************)
NoCompletionWritten == \A i \in 1..Len(wrote) : ScanLine(wrote[i]) = None

\* C4: when the child never emits a completion line, run_simulation has
\* returned, or is on its way out without waiting for anything, once timeout
\* plus one grace period have passed since the launch.
C4_TimeoutBound ==
    (/\ rpc \notin {"call", "returned"}
     /\ NoCompletionWritten
     /\ now - start_time > TimeoutTicks + SleepGrace)
        => ~Blocked

\* C13: a run for the next parameter is never launched while the child of
\* an earlier run is alive: main launches the next child as soon as
\* run_simulation has returned, so no child is alive when it returns.
C13_SingleActiveProcess == rpc = "returned" => child.state # "running"

\* C21: whenever the output of the child, on stdout or on stderr, holds a
\* line with both "ArrayIndexOutOfBoundsException" and
\* "IniFile.getColorValue", the run is reported as ConfigCorrupted (None is
\* returned) and fix_config_file is called; stated for the runs that neither
\* found a completion line nor timed out.
C21_KnownFaultDetection ==
    (/\ rpc = "returned" /\ child.state # "none"
     /\ total_steps = None /\ ~timed_out
     /\ \E i \in 1..Len(wrote) : HasSignature(wrote[i]))
        => ret = <<None>> /\ cfg_call.op = "fix_config_file"

\* the record main appends for the value run_simulation returned
RecordOfReturn == Result(MIN_ROBOTS, Val(ret[1]), 0)

\* C22: a child that exits with code 0 after a run in which no completion
\* line was read and no fault signature was scanned makes run_simulation
\* return 1200, the step budget of the default configuration, and main
\* records that number with status 'success'.
C22_FallbackSteps ==
    (/\ rpc = "returned" /\ child.state = "exited" /\ child.returncode = 0
     /\ ~timed_out /\ total_steps = None
     /\ \A i \in 1..Len(output_lines) : ~HasSignature(output_lines[i]))
        => /\ ret = <<Some(FallbackSteps)>>
           /\ RecordOfReturn.total_steps = JInt(FallbackSteps)
           /\ RecordOfReturn.status = "success"

C22_Witness ==
    /\ rpc = "returned" /\ child.state = "exited" /\ child.returncode = 0
    /\ output_lines = <<Words(<<"Robot", "moved">>)>>
    /\ ret = <<Some(FallbackSteps)>>

\* C23: once a completion line has been matched, SIGTERM is sent first and
\* SIGKILL only after the grace interval and only to a child still alive
\* then; the value returned is the extracted step count, whatever the exit
\* code of the child.
C23_GracefulThenForced ==
    /\ [](IsSome(total_steps) =>
            /\ signals \in {<<>>, <<SIGTERM>>, <<SIGTERM, SIGKILL>>}
            /\ (rpc = "returned" => ret = <<total_steps>>)
            /\ (rpc \in {"after_loop", "returned"} => signals # <<>>))
    /\ [][(IsSome(total_steps) /\ signals' # signals)
            => \/ signals = <<>> /\ signals' = <<SIGTERM>>
               \/ /\ signals = <<SIGTERM>> /\ signals' = <<SIGTERM, SIGKILL>>
                  /\ child.state = "running"
                  /\ now >= wake /\ rpc = "grace"]_vars
    /\ [][(rpc = "settle" /\ rpc' = "grace") => wake' = now + SleepGrace]_vars

C23_Witness ==
    /\ rpc = "returned" /\ signals = <<SIGTERM, SIGKILL>>
    /\ child.state = "exited" /\ child.returncode = -SIGKILL
    /\ ret = <<Some(9)>>

prev == IF inv >= 2 THEN hist[inv - 1] ELSE NoSummary
NoFlags(a) == ~a.force_rerun /\ ~a.clear_results /\ a.specific_robots = <<>>
SameRange == prev.range = <<args.min_robots, args.max_robots>>
Recorded(rs) == {rs[i].num_robots : i \in 1..Len(rs)}
LaunchIdx == {i \in 1..Len(log) : log[i].e = "launch"}
Launched == {log[i].p : i \in LaunchIdx}
\* the runs that returned a value, and the status main gives them
ValueKinds == {"completed", "silent_exit", "timeout"}
StatusOf(kind) == IF kind = "timeout" THEN "failed" ELSE "success"
\* the runs the claims call non-successful
NonSuccess(kind) == kind \in {"timeout", "failed_exit", "corrupted"}
BetweenRuns == mpc \in {"loop", "break"}

C2_Resumability ==
    (inv = 2 /\ prev.end = "killed" /\ prev.at = "loop" /\ NoFlags(args)
     /\ SameRange)
        => /\ Launched \cap Recorded(prev.persisted) = {}
           /\ mpc = "done" =>
                /\ file.kind = "json"
                /\ \A r \in Range(prev.persisted) : r \in Range(file.recs)

\* A restarted sweep that kept an old record and added a new one.
C2_Witness ==
    /\ inv = 2 /\ prev.end = "killed" /\ prev.at = "loop" /\ NoFlags(args)
    /\ SameRange /\ mpc = "done"
    /\ prev.persisted # <<>>
    /\ \E r \in Range(file.recs) : r.timestamp = clock

\* C8: whenever the last two runs both ended non-successfully (timeout,
\* unexpected exit or ConfigCorrupted), fix_config_file was called exactly
\* once for that pair by the time the second run has been handled.
C8_RecoveryTrigger ==
    (BetweenRuns /\ Cardinality(LaunchIdx) >= 2) =>
        LET i2 == CHOOSE i \in LaunchIdx : \A j \in LaunchIdx : j <= i
            i1 == CHOOSE i \in LaunchIdx \ {i2} :
                      \A j \in LaunchIdx \ {i2} : j <= i
        IN  (NonSuccess(log[i1].k) /\ NonSuccess(log[i2].k)) =>
                Cardinality({j \in 1..Len(log) :
                                 j > i1 /\ log[j].e \in {"fix", "fix_raised"}}) = 1

C10_CrashSafety ==
    (inv = 2 /\ prev.end = "killed" /\ ~args.clear_results /\ ~args.force_rerun
     /\ mpc = "loop" /\ log = <<>>)
        => \A r \in Range(prev.persisted) : r \in Range(results)

\* The num_robots values of a list, one per record and in list order.
Keys(rs) == [i \in 1..Len(rs) |-> rs[i].num_robots]
Unique(rs) == \A i \in 1..Len(rs), j \in 1..Len(rs) :
                  rs[i].num_robots = rs[j].num_robots => i = j

\* C11: in every reachable state of a sweep, whatever the options, the list
\* in memory and the list in the file hold at most one record per
\* num_robots value.
C11_Uniqueness == Unique(results) /\ Unique(Recs(file))

\* The previous invocation left its file whole: it finished, or it was
\* killed outside a write.
PrevFileWhole ==
    inv = 2 /\ (prev.end = "done" \/ prev.at \notin {"saving", "final_saving"})

\* C12: in an invocation without --clear-results, every record that was in
\* the file when the invocation started is in the file after every write of
\* the invocation and after finalize.
C12_NoAutomaticDeletion ==
    (/\ PrevFileWhole /\ ~args.clear_results
     /\ mpc \in {"loop", "configured", "break", "done"})
        => \A r \in Range(prev.persisted) : r \in Range(Recs(file))

\* C15: once fix_config_file has raised, in run_simulation or in main, no
\* further parameter is configured and no further simulator is launched in
\* that sweep.
C15_FatalRecoveryAborts ==
    \A i \in 1..Len(log) :
        log[i].e = "fix_raised" =>
            \A j \in (i + 1)..Len(log) : log[j].e \notin {"configure", "launch"}

\* The sweep left its loop because main's call of fix_config_file raised.
RecoveryRaised ==
    \E i \in 1..Len(log) : log[i].e = "fix_raised" /\ log[i].k = "main"

\* C16: a sweep that aborted because recovery raised ends with a non-zero
\* exit status.
C16_AbortExitStatus ==
    (RecoveryRaised /\ IsSome(exit_status)) => Val(exit_status) # 0

(***************************************************************************)
(* Claims about the start of main.                                         *)
(***************************************************************************)
FullRange == RangeList(args.min_robots, args.max_robots)

\* C14: loading the file never ends the sweep; with a missing or empty file,
\* or one whose content was replaced, the store is empty and the sweep goes
\* over the full range.
C14_LoadTolerance ==
    inv = 1 =>
        /\ mpc # "crashed"
        /\ (file.kind \in {"missing", "empty"} \/ file = JsonFile(<<>>))
               => /\ results = <<>>
                  /\ NoFlags(args) => robots_to_test = FullRange

\* C18: without --force-rerun and --specific-robots, robots_to_test holds
\* exactly the values of the range that have no record, of any status, in
\* the loaded store, each once and in strictly ascending order.
C18_Pending ==
    (inv = 1 /\ mpc = "loop" /\ log = <<>> /\ ~args.force_rerun
     /\ args.specific_robots = <<>>)
        => /\ Range(robots_to_test)
                  = {n \in args.min_robots..args.max_robots :
                         n \notin Recorded(results)}
           /\ \A i \in 1..Len(robots_to_test), j \in 1..Len(robots_to_test) :
                  i < j => robots_to_test[i] < robots_to_test[j]

\* A store with a timeout record for 1 and nothing for 2: only 2 is pending.
C18_Witness ==
    /\ inv = 1 /\ mpc = "loop" /\ NoFlags(args)
    /\ Len(results) = 1 /\ results[1].status = "failed"
    /\ results[1].num_robots = 1
    /\ robots_to_test # <<>> /\ robots_to_test[1] = 2

\* The records of rs' are those of rs, each as often: a permutation.
SameRecords(rs, qs) ==
    /\ Len(rs) = Len(qs)
    /\ \A r \in Range(rs) \cup Range(qs) :
           Cardinality({i \in 1..Len(rs) : rs[i] = r})
               = Cardinality({i \in 1..Len(qs) : qs[i] = r})
SortedByRobots(rs) ==
    \A i \in 1..Len(rs), j \in 1..Len(rs) :
        i < j => rs[i].num_robots <= rs[j].num_robots

\* C19: each append in the loop adds the new record behind the earlier ones,
\* in their order, and once the save that follows it is over, before the
\* next parameter is configured, the file holds exactly the list in memory.
C19_UpsertPersistence ==
    /\ [][(mpc = "configured" /\ mpc' = "saving") =>
              /\ Len(results') = Len(results) + 1
              /\ SubSeq(results', 1, Len(results)) = results
              /\ results'[Len(results')].num_robots = robots_to_test[idx]]_vars
    /\ [][(mpc = "saving" /\ mpc' = "loop") =>
              (file'.kind = "json" /\ file'.recs = results)]_vars
    /\ []((/\ mpc \in {"loop", "configured"} /\ Len(log) >= 2
           /\ "record" \in {log[Len(log)].e, log[Len(log) - 1].e})
              => (file.kind = "json" /\ file.recs = results))

\* The second record of an invocation has been saved behind the first.
C19_Witness ==
    /\ mpc = "loop" /\ log # <<>> /\ log[Len(log)].e = "record"
    /\ Len(results) = 2 /\ (file.kind = "json" /\ file.recs = results)
    /\ Cardinality({i \in 1..Len(log) : log[i].e = "record"}) = 2

\* C20: the final sort keeps the records of the list (none added, none
\* dropped) and orders them by num_robots, and at Done the file holds
\* exactly that sorted list.
C20_Finalize ==
    /\ [][mpc' = "final_saving" =>
              SameRecords(results', results) /\ SortedByRobots(results')]_vars
    /\ [][(mpc = "final_saving" /\ mpc' = "done") =>
              (file'.kind = "json" /\ file'.recs = results) /\ results' = results]_vars
    /\ [](mpc = "done" => (file.kind = "json" /\ file.recs = results) /\ SortedByRobots(Recs(file)))

\* A sweep that recorded 2 before 1 and ended with 1 before 2 in the file.
C20_Witness ==
    /\ mpc = "done" /\ Len(Recs(file)) = 2
    /\ Recs(file)[1].num_robots < Recs(file)[2].num_robots
    /\ \E i \in 1..Len(log), j \in 1..Len(log) :
           /\ i < j /\ log[i].e = "record" /\ log[j].e = "record"
           /\ log[i].p > log[j].p

\* C25: when a single run reports ConfigCorrupted (the run before it, if
\* any, returned a value), fix_config_file is called exactly once for that
\* run and consecutive_failures is zero when the next pending parameter is
\* configured, so that one further non-success run alone triggers no reset.
C25_CorruptedRecovery ==
    (mpc = "loop" /\ LaunchIdx # {}) =>
        LET i2 == CHOOSE i \in LaunchIdx : \A j \in LaunchIdx : j <= i
        IN  (/\ log[i2].k = "corrupted"
             /\ \A i \in LaunchIdx \ {i2} :
                    (\A j \in LaunchIdx \ {i2} : j <= i) => log[i].k \in ValueKinds)
                => /\ Cardinality({j \in 1..Len(log) :
                          j > i2 /\ log[j].e \in {"fix", "fix_raised"}}) = 1
                   /\ consecutive_failures = 0

\* C26: within one invocation the parameters configured are, in order, the
\* first elements of the pending sequence, each one configured and launched
\* at most once, a failed one included; and the sweep reaches the end of
\* main after at most Len(robots_to_test) launches when every call of
\* run_simulation returns: main always has a next step to take, and every
\* step it takes lowers a measure that is bounded by the pending sequence.
ConfigureIdx == {i \in 1..Len(log) : log[i].e = "configure"}
InMain == mpc \in {"loop", "configured", "saving", "break", "final_saving"}
Measure ==
    CASE mpc = "final_saving" -> 1
      [] mpc = "break" -> 2
      [] mpc \in {"loop", "configured", "saving"} ->
            3 + 3 * (Len(robots_to_test) + 1 - idx)
              + (CASE mpc = "loop" -> 2 [] mpc = "configured" -> 1 [] OTHER -> 0)
      [] OTHER -> 0
\* the steps of main with a guard of their own; in "loop" and "break" the
\* next step is modify_config or the sort, which the position alone enables
AfterConfigure == RunRecorded \/ SaveResults \/ RunSkipped \/ FinalSave
C26_BoundedRetry ==
    /\ [](/\ Cardinality(LaunchIdx) <= Cardinality(ConfigureIdx)
          /\ Cardinality(ConfigureIdx) <= Len(robots_to_test)
          /\ \A i \in ConfigureIdx :
                log[i].p = robots_to_test[Cardinality({j \in ConfigureIdx : j <= i})]
          /\ \A i \in LaunchIdx :
                /\ i > 1 /\ log[i - 1].e = "configure" /\ log[i - 1].p = log[i].p
                /\ \A j \in LaunchIdx : j < i => j < i - 1
          /\ InMain => /\ idx <= Len(robots_to_test) + 1
                       /\ \/ mpc \in {"loop", "break"}
                          \/ ENABLED AfterConfigure
          /\ mpc = "done" => Measure = 0)
    /\ [][(InMain /\ inv' = inv /\ mpc' # "killed") => Measure' < Measure]_vars

C26_Witness ==
    /\ mpc = "done" /\ Len(robots_to_test) = 2
    /\ Cardinality(LaunchIdx) = 2
    /\ \E i \in LaunchIdx : log[i].k = "failed_exit"

\* C27: fix_config_file copies the artifact to the backup file before it
\* overwrites it; a failed copy neither stops the overwrite nor raises; when
\* the call returns the artifact is default_config, and after a successful
\* copy the backup file holds what the artifact held just before the call.
C27_ResetToDefaults ==
    cfg_call.op = "fix_config_file" =>
        /\ config = default_config
        /\ cfg_call.v = 1 => backup = Some(cfg_before)

\* A reset whose backup failed, after a reset whose backup succeeded.
C27_Witness ==
    /\ cfg_call.op = "fix_config_file" /\ cfg_call.v = 0 /\ cfg_call.n = 2
    /\ config = default_config /\ cfg_before = default_config
    /\ backup # None /\ backup # Some(default_config)

\* C28: when the artifact has no "robot =" line inside a [configuration]
\* section, modify_config writes the artifact back unchanged and returns,
\* and main goes on to launch the run for that parameter: every configure
\* step is followed by the launch for the same parameter unless the process
\* is killed in between.
C28_FieldNotFoundNonFatal ==
    /\ \A a \in Artifacts, v \in CfgValues :
            Owned(a) = {} => modify_config(a, v) = a
    /\ [][(mpc = "loop" /\ mpc' = "configured" /\ Owned(config) = {})
            => /\ config' = config
               /\ log' = Append(log, Event("configure", robots_to_test[idx], ""))]_vars
    /\ []((mpc = "configured" /\ Owned(config) = {})
            => ENABLED (RunRecorded \/ RunSkipped))
    /\ [](\A i \in ConfigureIdx :
            IF i < Len(log)
            THEN log[i + 1].e = "launch" /\ log[i + 1].p = log[i].p
            ELSE mpc \in {"configured", "killed"})

\* A run was launched and recorded with the artifact still lacking the field.
C28_Witness ==
    /\ mpc = "loop" /\ config = NoRobotField
    /\ \E i \in LaunchIdx : log[i].k = "completed"

\* C29: whatever --min-robots, --max-robots and --specific-robots are given,
\* every value modify_config writes into the artifact and every num_robots
\* of a record is a positive integer.
C29_PositiveParameter ==
    /\ \A i \in ConfigureIdx : log[i].p >= 1
    /\ \A i \in Owned(config) :
            \A v \in {0 - 1, 0} : config[i] # RobotLine(v)
    /\ \A i \in 1..Len(results) : results[i].num_robots >= 1
    /\ \A i \in 1..Len(Recs(file)) : Recs(file)[i].num_robots >= 1

\* C30: run_robot_experiments.modify_config rewrites only the robot field of
\* the [configuration] section; the "robot =" field of the [color] section
\* and every other line are left as they were.
C30_OlderSectionOwnership ==
    cfg_call.op = "experiments.modify_config" =>
        /\ Len(config) = Len(cfg_before)
        /\ \A i \in 1..Len(cfg_before) :
            config[i] = IF OwnsRobotField(cfg_before, i)
                        THEN RobotLine(cfg_call.v) ELSE cfg_before[i]

\* C31: every record of the sweep, in memory or in RESULTS_FILE, has either
\* status 'success' and a non-negative integer as total_steps, or status
\* 'failed' and total_steps 'TIMEOUT'; neither the sentinel -1 nor None is
\* ever stored as total_steps.
WellFormedRecord(r) ==
    \/ r.status = "success" /\ r.total_steps.t = "int" /\ r.total_steps.n >= 0
    \/ r.status = "failed" /\ r.total_steps = JStr("TIMEOUT")
C31_RecordWellFormed ==
    /\ \A i \in 1..Len(results) : WellFormedRecord(results[i])
    /\ \A i \in 1..Len(Recs(file)) : WellFormedRecord(Recs(file)[i])

\* Both kinds of record are in the file.
C31_Witness ==
    /\ mpc = "done"
    /\ \E i \in 1..Len(Recs(file)) : Recs(file)[i].status = "failed"
    /\ \E i \in 1..Len(Recs(file)) : Recs(file)[i].total_steps = JInt(FallbackSteps)

\* the value of the robot field of the [configuration] section is p
RobotFieldIs(a, p) ==
    Owned(a) # {} /\ \A i \in Owned(a) : a[i] = RobotLine(p)
\* a step of main that appends a success record for the element it is on
RecordsSuccess ==
    /\ mpc = "configured" /\ mpc' = "saving"
    /\ results'[Len(results')].status = "success"

\* C32 as stated: every success record for p comes from a run launched
\* while the robot field of the [configuration] section had the value p,
\* whatever the artifact was at the start.
C32_AttributionAsStated ==
    [][RecordsSuccess => RobotFieldIs(config, robots_to_test[idx])]_vars

\* C32: every success record for p comes from a run launched while the
\* robot field of the [configuration] section had the value p, provided the
\* artifact has such a field when the run is launched; when it has none the
\* run is launched on the artifact as it was and its record is stored for p
\* all the same.
C32_Attribution ==
    [][RecordsSuccess =>
        /\ results'[Len(results')].num_robots = robots_to_test[idx]
        /\ Owned(config) # {} => RobotFieldIs(config, robots_to_test[idx])
        /\ Owned(config) = {} => config = NoRobotField]_vars

\* A success recorded after a reset, with the field set to the parameter.
C32_Witness ==
    /\ mpc = "saving"
    /\ \E i \in 1..Len(log) : log[i].e = "fix"
    /\ log[Len(log)].e = "record" /\ log[Len(log)].k = "success"
    /\ RobotFieldIs(config, robots_to_test[idx])

\* C33: a child that writes a completion line with N steps on stdout and
\* then exits with code 0 before the timeout makes run_simulation return N,
\* however its write and its exit interleave with the poll and the readline
\* of the supervisor.
C33_NoMissedCompletion ==
    (/\ rpc = "returned" /\ ~timed_out
     /\ child.state = "exited" /\ child.returncode = 0
     /\ wrote # <<>> /\ IsSome(ScanLine(wrote[1])))
        => ret = <<ScanLine(wrote[1])>>

\* C34: the modify_config(p) that follows a fix_config_file call that
\* returned finds the robot field of the [configuration] section and sets it
\* to p: the artifact is default_config with that one line rewritten, the
\* robot colour of the [color] section included as it was.
AfterReset ==
    /\ mpc = "configured" /\ Len(log) >= 2
    /\ log[Len(log)].e = "configure" /\ log[Len(log) - 1].e = "fix"
C34_ResetRestoresEditability ==
    AfterReset =>
        /\ config = [default_config EXCEPT ![6] = RobotLine(log[Len(log)].p)]
        /\ Owned(config) = {6}
        /\ config[27] = Field("robot", "0,255,0")
        /\ RobotFieldIs(config, robots_to_test[idx])

C34_Witness ==
    /\ AfterReset
    /\ robots_to_test[idx] = 1
    /\ config[6] = Field("robot", "1") /\ config # default_config

====
